---- MODULE Spec2Model ----
(***************************************************************************)
(* The CircuitBreaker of ts-easy-circuit-breaker (src/src/index.ts, the    *)
(* version with maxFailureCount and getState, lines 193-396).              *)
(*                                                                         *)
(* One breaker instance.  execute() is an async function: the code up to   *)
(* `await fn(...args)` runs synchronously (checkState, the OPEN test, the  *)
(* invocation of fn), the code after the await runs when fn's promise      *)
(* settles (onSuccess / onFailure).  Each of the two synchronous segments  *)
(* is one action; between them other execute calls and clock ticks may     *)
(* interleave.  Date.now() is the variable `now`; a synchronous segment    *)
(* runs to completion at one clock reading.                                *)
(***************************************************************************)
EXTENDS Integers, Sequences, FiniteSets, Bags, TLC

VARIABLES
    now,               \* the clock, Date.now()
    cfg,               \* the readonly configuration fields set by the constructor
    state,             \* this.state
    failureCount,      \* this.failureCount
    successCount,      \* this.successCount
    firstFailureTime,  \* this.firstFailureTime
    lastFailureTime,   \* this.lastFailureTime
    nextAttempt,       \* this.nextAttempt
    calls,             \* the bag of execute calls suspended at the await of fn
    log,               \* what the last step did, in order: emits, invocation, return/throw
    pre,               \* history: the breaker's fields before the last step
    cur,               \* history: the execute call the last step ran for, as it was admitted
    lastOpenTime,      \* history: clock reading of the latest entry into OPEN, 0 if none
    snapshot           \* history: the first exportState() since the last execute step, and its time

vars == <<now, cfg, state, failureCount, successCount, firstFailureTime,
          lastFailureTime, nextAttempt, calls, log, pre, cur, lastOpenTime,
          snapshot>>

----------------------------------------------------------------------------
(* Bounds of the model *)

MaxTime == 5        \* the clock runs over 1..MaxTime
MaxAttempts == 5    \* executes are admitted while recorded + in-flight outcomes < MaxAttempts
MaxInFlight == 2    \* execute calls that may be suspended at the await at once

----------------------------------------------------------------------------
(* enum CircuitState *)

CLOSED == 0
OPEN == 1
HALF_OPEN == 2

\* Number.MAX_SAFE_INTEGER (2^53 - 1); the largest integer of the checker stands
\* for it, every counter of the model staying far below either.
MAX_SAFE_INTEGER == 2147483647

\* JavaScript's undefined, as an option left out or an emit without payload
undefined == 0 - 1

\* a || b on numbers and undefined: b when a is falsy (0 or undefined)
OrElse(a, b) == IF a = 0 \/ a = undefined THEN b ELSE a

----------------------------------------------------------------------------
(* Inputs *)

\* CircuitBreakerOptions offered to the constructor.  failureThreshold is a
\* fraction in [0,1] held in percent; 0 stands for an optional field left out.
OptionValues ==
    [failureThreshold : {50, 100},
     timeWindow : {2},
     resetTimeout : {1, 2},
     minAttempts : {0, 2},
     minFailures : {0, 2},
     minEvaluationTime : {0, 1},
     maxFailureCount : {0, 2, 3}]

\* results and errors of the wrapped operation
OpResults == {7, 8}
OpErrors == {"E1", "E2"}

----------------------------------------------------------------------------
(* The breaker's fields as one value, with the effects of the running step *)

Self ==
    [state |-> state, failureCount |-> failureCount, successCount |-> successCount,
     firstFailureTime |-> firstFailureTime, lastFailureTime |-> lastFailureTime,
     nextAttempt |-> nextAttempt, log |-> <<>>]

\* the six fields alone, as exportState() lists them
Fields(s) ==
    [state |-> s.state, failureCount |-> s.failureCount, successCount |-> s.successCount,
     firstFailureTime |-> s.firstFailureTime, lastFailureTime |-> s.lastFailureTime,
     nextAttempt |-> s.nextAttempt]

Effect(s, ev, name, payload) ==
    [s EXCEPT !.log = Append(@, [ev |-> ev, name |-> name, payload |-> payload])]

\* this.emit(name, payload)
emit(s, name, payload) == Effect(s, "emit", name, payload)

\* constructor(options, initialState): the configuration fields
Config(options) ==
    [failureThreshold |-> options.failureThreshold,
     timeWindow |-> options.timeWindow,
     resetTimeout |-> options.resetTimeout,
     minAttempts |-> OrElse(options.minAttempts, 5),
     minFailures |-> OrElse(options.minFailures, 3),
     minEvaluationTime |-> OrElse(options.minEvaluationTime, 0),
     maxFailureCount |-> OrElse(options.maxFailureCount, MAX_SAFE_INTEGER)]

\* initialState left out
NoInitialState ==
    [state |-> undefined, failureCount |-> undefined, successCount |-> undefined,
     firstFailureTime |-> undefined, lastFailureTime |-> undefined,
     nextAttempt |-> undefined]

\* the constructor taking state, the counters, lastFailureTime and nextAttempt
\* from initialState and starting the window afresh
InitialFields_withoutFirstFailureTime(initialState) ==
    [state |-> OrElse(initialState.state, CLOSED),
     failureCount |-> OrElse(initialState.failureCount, 0),
     successCount |-> OrElse(initialState.successCount, 0),
     firstFailureTime |-> 0,
     lastFailureTime |-> OrElse(initialState.lastFailureTime, 0),
     nextAttempt |-> OrElse(initialState.nextAttempt, 0)]

\* no exportState() since the last execute step
NoSnapshot == [at |-> 0, value |-> NoInitialState]

\* constructor(options, initialState): the state fields
InitialFields(initialState) ==
    [state |-> OrElse(initialState.state, CLOSED),
     failureCount |-> OrElse(initialState.failureCount, 0),
     successCount |-> OrElse(initialState.successCount, 0),
     firstFailureTime |-> OrElse(initialState.firstFailureTime, 0),
     lastFailureTime |-> OrElse(initialState.lastFailureTime, 0),
     nextAttempt |-> OrElse(initialState.nextAttempt, 0)]

\* resetState closing the window and keeping the failures counted
resetState_keepsFailureCount(s) ==
    [s EXCEPT !.state = CLOSED, !.successCount = 0,
              !.firstFailureTime = 0, !.lastFailureTime = 0, !.nextAttempt = 0]

\* resetState leaving the cooldown deadline behind
resetState_keepsNextAttempt(s) ==
    [s EXCEPT !.state = CLOSED, !.failureCount = 0, !.successCount = 0,
              !.firstFailureTime = 0, !.lastFailureTime = 0]

resetState(s) ==
    [s EXCEPT !.state = CLOSED, !.failureCount = 0, !.successCount = 0,
              !.firstFailureTime = 0, !.lastFailureTime = 0, !.nextAttempt = 0]

\* toOpen leaving the cooldown out of the deadline
toOpen_withoutCooldown(s) ==
    LET s1 == [s EXCEPT !.state = OPEN, !.nextAttempt = now]
    IN  emit(s1, "openCircuit", s1.nextAttempt)

\* toOpen counting the cooldown from the start of the window
toOpen_fromFirstFailure(s) ==
    LET s1 == [s EXCEPT !.state = OPEN,
                        !.nextAttempt = s.firstFailureTime + cfg.resetTimeout]
    IN  emit(s1, "openCircuit", s1.nextAttempt)

toOpen(s) ==
    LET s1 == [s EXCEPT !.state = OPEN, !.nextAttempt = now + cfg.resetTimeout]
    IN  emit(s1, "openCircuit", s1.nextAttempt)

toHalfOpen(s) ==
    emit([s EXCEPT !.state = HALF_OPEN, !.failureCount = 0, !.successCount = 0],
         "halfOpen", undefined)

toClose(s) == emit(resetState(s), "closeCircuit", undefined)

\* checkState half-opening only strictly after nextAttempt
checkState_strictlyAfter(s) ==
    LET s1 == IF s.state = OPEN /\ now > s.nextAttempt
                THEN toHalfOpen(s)
              ELSE IF /\ s.state = CLOSED
                      /\ s.firstFailureTime # 0
                      /\ now - s.firstFailureTime > cfg.timeWindow
                THEN resetState(s)
              ELSE s
    IN  IF \/ s1.successCount >= MAX_SAFE_INTEGER
           \/ s1.failureCount >= cfg.maxFailureCount
          THEN resetState(s1)
          ELSE s1

\* checkState with a window that slides with the latest failure
checkState_slidingWindow(s) ==
    LET s1 == IF s.state = OPEN /\ now >= s.nextAttempt
                THEN toHalfOpen(s)
              ELSE IF /\ s.state = CLOSED
                      /\ s.firstFailureTime # 0
                      /\ now - s.lastFailureTime > cfg.timeWindow
                THEN resetState(s)
              ELSE s
    IN  IF \/ s1.successCount >= MAX_SAFE_INTEGER
           \/ s1.failureCount >= cfg.maxFailureCount
          THEN resetState(s1)
          ELSE s1

\* checkState without the maxFailureCount safety valve
checkState_noCeiling(s) ==
    IF s.state = OPEN /\ now >= s.nextAttempt
      THEN toHalfOpen(s)
    ELSE IF /\ s.state = CLOSED
            /\ s.firstFailureTime # 0
            /\ now - s.firstFailureTime > cfg.timeWindow
      THEN resetState(s)
    ELSE s

checkState(s) ==
    LET s1 == IF s.state = OPEN /\ now >= s.nextAttempt
                THEN toHalfOpen(s)
              ELSE IF /\ s.state = CLOSED
                      /\ s.firstFailureTime # 0
                      /\ now - s.firstFailureTime > cfg.timeWindow
                THEN resetState(s)
              ELSE s
    IN  IF \/ s1.successCount >= MAX_SAFE_INTEGER
           \/ s1.failureCount >= cfg.maxFailureCount
          THEN resetState(s1)
          ELSE s1

\* isThresholdExceeded with the conditions joined by || where && is meant
isThresholdExceeded_anyCondition(s) ==
    LET totalAttempts == s.failureCount + s.successCount
        timeElapsed == now - s.firstFailureTime
    IN  \/ s.failureCount >= cfg.minFailures
        \/ s.failureCount * 100 >= cfg.failureThreshold * totalAttempts
        \/ totalAttempts >= cfg.minAttempts
        \/ timeElapsed >= cfg.minEvaluationTime
        \/ now < s.firstFailureTime + cfg.timeWindow

\* isThresholdExceeded evaluating the rate whether or not the window has ended
isThresholdExceeded_noWindow(s) ==
    LET totalAttempts == s.failureCount + s.successCount
        timeElapsed == now - s.firstFailureTime
    IN  /\ s.failureCount >= cfg.minFailures
        /\ s.failureCount * 100 >= cfg.failureThreshold * totalAttempts
        /\ totalAttempts >= cfg.minAttempts
        /\ timeElapsed >= cfg.minEvaluationTime

\* isThresholdExceeded without the minAttempts condition
isThresholdExceeded_noMinAttempts(s) ==
    LET totalAttempts == s.failureCount + s.successCount
        timeElapsed == now - s.firstFailureTime
    IN  /\ s.failureCount >= cfg.minFailures
        /\ s.failureCount * 100 >= cfg.failureThreshold * totalAttempts
        /\ timeElapsed >= cfg.minEvaluationTime
        /\ now < s.firstFailureTime + cfg.timeWindow

\* failureRate >= failureThreshold with failureRate = failureCount / totalAttempts
\* is compared in percent; totalAttempts > 0 wherever onFailure calls this
isThresholdExceeded(s) ==
    LET totalAttempts == s.failureCount + s.successCount
        timeElapsed == now - s.firstFailureTime
    IN  /\ s.failureCount >= cfg.minFailures
        /\ s.failureCount * 100 >= cfg.failureThreshold * totalAttempts
        /\ totalAttempts >= cfg.minAttempts
        /\ timeElapsed >= cfg.minEvaluationTime
        /\ now < s.firstFailureTime + cfg.timeWindow

\* onSuccess closing the circuit from OPEN as it does from HALF_OPEN
onSuccess_closesWhileOpen(s) ==
    LET s1 == [s EXCEPT !.successCount = @ + 1]
        s2 == IF s1.state # CLOSED THEN toClose(s1) ELSE s1
    IN  emit(s2, "success", s2.successCount)

\* onSuccess counting the closing success in the window it opens
onSuccess_countsAfterClose(s) ==
    LET s1 == IF s.state = HALF_OPEN THEN toClose(s) ELSE s
        s2 == [s1 EXCEPT !.successCount = @ + 1]
    IN  emit(s2, "success", s2.successCount)

\* onSuccess forgiving the recorded failures on every success
onSuccess_clearsFailures(s) ==
    LET s1 == [s EXCEPT !.successCount = @ + 1, !.failureCount = 0,
                        !.firstFailureTime = 0]
        s2 == IF s1.state = HALF_OPEN THEN toClose(s1) ELSE s1
    IN  emit(s2, "success", s2.successCount)

onSuccess(s) ==
    LET s1 == [s EXCEPT !.successCount = @ + 1]
        s2 == IF s1.state = HALF_OPEN THEN toClose(s1) ELSE s1
    IN  emit(s2, "success", s2.successCount)

\* onFailure consulting the threshold in HALF_OPEN as it does in CLOSED
onFailure_thresholdInHalfOpen(s) ==
    LET s1 == [s EXCEPT !.failureCount = @ + 1, !.lastFailureTime = now]
        s2 == IF s1.state = CLOSED /\ s1.firstFailureTime = 0
                THEN [s1 EXCEPT !.firstFailureTime = now]
                ELSE s1
        s3 == IF s2.state = CLOSED \/ s2.state = HALF_OPEN
                THEN IF isThresholdExceeded(s2) THEN toOpen(s2) ELSE s2
              ELSE s2
    IN  emit(s3, "failure", s3.failureCount)

\* onFailure moving the start of the window to the latest failure
onFailure_restartsWindow(s) ==
    LET s1 == [s EXCEPT !.failureCount = @ + 1, !.lastFailureTime = now]
        s2 == IF s1.state = CLOSED
                THEN [s1 EXCEPT !.firstFailureTime = now]
                ELSE s1
        s3 == IF s2.state = CLOSED
                THEN IF isThresholdExceeded(s2) THEN toOpen(s2) ELSE s2
              ELSE IF s2.state = HALF_OPEN THEN toOpen(s2)
              ELSE s2
    IN  emit(s3, "failure", s3.failureCount)

\* onFailure notifying only the failures that the CLOSED and HALF_OPEN branches handle
onFailure_silentWhileOpen(s) ==
    LET s1 == [s EXCEPT !.failureCount = @ + 1, !.lastFailureTime = now]
        s2 == IF s1.state = CLOSED /\ s1.firstFailureTime = 0
                THEN [s1 EXCEPT !.firstFailureTime = now]
                ELSE s1
    IN  IF s2.state = CLOSED
          THEN emit(IF isThresholdExceeded(s2) THEN toOpen(s2) ELSE s2,
                    "failure", s2.failureCount)
        ELSE IF s2.state = HALF_OPEN
          THEN emit(toOpen(s2), "failure", s2.failureCount)
        ELSE s2

\* onFailure notifying the failure before it decides on the transition
onFailure_notifiesFirst(s) ==
    LET s1 == [s EXCEPT !.failureCount = @ + 1, !.lastFailureTime = now]
        s2 == IF s1.state = CLOSED /\ s1.firstFailureTime = 0
                THEN [s1 EXCEPT !.firstFailureTime = now]
                ELSE s1
        s3 == emit(s2, "failure", s2.failureCount)
    IN  IF s3.state = CLOSED
          THEN IF isThresholdExceeded(s3) THEN toOpen(s3) ELSE s3
        ELSE IF s3.state = HALF_OPEN THEN toOpen(s3)
        ELSE s3

onFailure(s) ==
    LET s1 == [s EXCEPT !.failureCount = @ + 1, !.lastFailureTime = now]
        s2 == IF s1.state = CLOSED /\ s1.firstFailureTime = 0
                THEN [s1 EXCEPT !.firstFailureTime = now]
                ELSE s1
        s3 == IF s2.state = CLOSED
                THEN IF isThresholdExceeded(s2) THEN toOpen(s2) ELSE s2
              ELSE IF s2.state = HALF_OPEN THEN toOpen(s2)
              ELSE s2
    IN  emit(s3, "failure", s3.failureCount)

\* execute() restarting the cooldown at every rejected call
executeEnter_rejectionExtendsCooldown(s) ==
    LET s1 == checkState(Effect(s, "call", "execute", undefined))
    IN  IF s1.state = OPEN /\ now < s1.nextAttempt
          THEN Effect(emit([s1 EXCEPT !.nextAttempt = now + cfg.resetTimeout],
                           "openCircuit", undefined),
                      "throw", "CircuitBreakerOpenError", undefined)
          ELSE Effect(s1, "invoke", "fn", undefined)

\* execute() with the cooldown comparison the wrong way round
executeEnter_invertedGate(s) ==
    LET s1 == checkState(Effect(s, "call", "execute", undefined))
    IN  IF s1.state = OPEN /\ now >= s1.nextAttempt
          THEN Effect(emit(s1, "openCircuit", undefined),
                      "throw", "CircuitBreakerOpenError", undefined)
          ELSE Effect(s1, "invoke", "fn", undefined)

\* execute(), up to the await: reconcile, then reject or invoke fn
executeEnter(s) ==
    LET s1 == checkState(Effect(s, "call", "execute", undefined))
    IN  IF s1.state = OPEN /\ now < s1.nextAttempt
          THEN Effect(emit(s1, "openCircuit", undefined),
                      "throw", "CircuitBreakerOpenError", undefined)
          ELSE Effect(s1, "invoke", "fn", undefined)

\* execute(), after the await, fn's promise resolved with result
executeResolved(s, result) ==
    Effect(onSuccess(Effect(s, "resolved", "", result)), "return", "", result)

\* execute() raising its own error type in place of the operation's error
executeRejected_wrapped(s, error) ==
    Effect(onFailure(Effect(s, "rejected", error, undefined)),
           "throw", "CircuitBreakerOpenError", undefined)

\* execute(), after the await, fn's promise rejected with error
executeRejected(s, error) ==
    Effect(onFailure(Effect(s, "rejected", error, undefined)), "throw", error, undefined)

\* getState() reconciling the phase with the clock before answering
getState_reconciling(s) ==
    LET s1 == checkState(s)
    IN  Effect(s1, "probe", "getState", s1.state)

\* getState(): the value returned is the payload of the step's last effect
getState(s) == Effect(s, "probe", "getState", s.state)

\* exportState() as a call that reconciles the phase before taking the snapshot
exportState_reconciling(s) ==
    LET s1 == checkState(s)
    IN  Effect(s1, "probe", "exportState",
               [state |-> s1.state, failureCount |-> s1.failureCount,
                successCount |-> s1.successCount,
                firstFailureTime |-> s1.firstFailureTime,
                lastFailureTime |-> s1.lastFailureTime,
                nextAttempt |-> s1.nextAttempt])

exportState(s) ==
    Effect(s, "probe", "exportState",
           [state |-> s.state, failureCount |-> s.failureCount,
            successCount |-> s.successCount,
            firstFailureTime |-> s.firstFailureTime,
            lastFailureTime |-> s.lastFailureTime,
            nextAttempt |-> s.nextAttempt])

----------------------------------------------------------------------------
(* Observations of a step's log *)

Has(l, ev) == \E i \in 1..Len(l) : l[i].ev = ev
Invoked(l) == Has(l, "invoke")
Emits(l, name) == \E i \in 1..Len(l) : l[i].ev = "emit" /\ l[i].name = name
Throws(l, error) == \E i \in 1..Len(l) : l[i].ev = "throw" /\ l[i].name = error
Last(l) == l[Len(l)]

----------------------------------------------------------------------------
(* The state machine *)

Commit(s) ==
    /\ state' = s.state
    /\ failureCount' = s.failureCount
    /\ successCount' = s.successCount
    /\ firstFailureTime' = s.firstFailureTime
    /\ lastFailureTime' = s.lastFailureTime
    /\ nextAttempt' = s.nextAttempt
    /\ log' = s.log
    /\ pre' = Fields(Self)
    /\ lastOpenTime' = IF s.state = OPEN /\ state # OPEN THEN now ELSE lastOpenTime
    /\ snapshot' = NoSnapshot

\* no call, and a call as execute() admitted it: the phase fn was invoked in
\* (or the call rejected in), and whether execute() found the window lapsed
NoCall == [kind |-> "none", phase |-> CLOSED, lapsed |-> FALSE]

Admitted(s) ==
    [kind |-> "call", phase |-> s.state,
     lapsed |-> /\ state = CLOSED
                /\ firstFailureTime # 0
                /\ now - firstFailureTime > cfg.timeWindow]

InFlight == BagCardinality(calls)

Init ==
    /\ now = 1
    /\ cfg \in {Config(o) : o \in OptionValues}
    /\ LET f == InitialFields(NoInitialState)
       IN  /\ state = f.state
           /\ failureCount = f.failureCount
           /\ successCount = f.successCount
           /\ firstFailureTime = f.firstFailureTime
           /\ lastFailureTime = f.lastFailureTime
           /\ nextAttempt = f.nextAttempt
    /\ calls = EmptyBag
    /\ log = <<>>
    /\ pre = InitialFields(NoInitialState)
    /\ cur = NoCall
    /\ lastOpenTime = 0
    /\ snapshot = NoSnapshot

\* a caller calls execute(fn): the segment up to the await
Execute ==
    /\ InFlight < MaxInFlight
    /\ state = CLOSED => failureCount + successCount + InFlight < MaxAttempts
    /\ LET s == executeEnter(Self)
       IN  /\ Commit(s)
           /\ calls' = IF Invoked(s.log) THEN calls (+) SetToBag({Admitted(s)}) ELSE calls
           /\ cur' = Admitted(s)
    /\ UNCHANGED <<now, cfg>>

\* fn's promise resolves: the segment after the await, try branch
Resolve(c) ==
    /\ \E result \in OpResults : Commit(executeResolved(Self, result))
    /\ calls' = calls (-) SetToBag({c})
    /\ cur' = c
    /\ UNCHANGED <<now, cfg>>

\* fn's promise rejects: the segment after the await, catch branch
Reject(c) ==
    /\ \E error \in OpErrors : Commit(executeRejected(Self, error))
    /\ calls' = calls (-) SetToBag({c})
    /\ cur' = c
    /\ UNCHANGED <<now, cfg>>

\* the clock advances; nothing of the breaker runs
Tick ==
    /\ now < MaxTime
    /\ now' = now + 1
    /\ log' = <<>>
    /\ pre' = Fields(Self)
    /\ cur' = NoCall
    /\ UNCHANGED <<cfg, state, failureCount, successCount, firstFailureTime,
                   lastFailureTime, nextAttempt, calls, lastOpenTime, snapshot>>

Next ==
    \/ Execute
    \/ \E c \in BagToSet(calls) : Resolve(c)
    \/ \E c \in BagToSet(calls) : Reject(c)
    \/ Tick

Spec == Init /\ [][Next]_vars

\* fn's promise settles, one way or the other
Settle == \E c \in BagToSet(calls) : Resolve(c) \/ Reject(c)

\* The clock keeps advancing, callers keep calling execute, and every
\* operation invoked eventually settles
LiveSpec ==
    /\ Init /\ [][Next]_vars
    /\ WF_vars(Tick)
    /\ WF_vars(Execute)
    /\ WF_vars(Settle)

\* Sequential callers: each execute call is awaited before the next is made
SeqNext ==
    \/ InFlight = 0 /\ Execute
    \/ \E c \in BagToSet(calls) : Resolve(c)
    \/ \E c \in BagToSet(calls) : Reject(c)
    \/ Tick

SeqSpec == Init /\ [][SeqNext]_vars

\* The breaker of the test suite's "minFailures option" block, its callers
\* sequential and its clock advanced in steps as jest.advanceTimersByTime does
TestOptions ==
    [failureThreshold |-> 50, timeWindow |-> 10000, resetTimeout |-> 30000,
     minAttempts |-> 5, minFailures |-> 3,
     minEvaluationTime |-> undefined, maxFailureCount |-> undefined]

AdvanceStep == 1000
MaxAdvances == 11   \* the clock is advanced at most MaxAdvances times

TestInit ==
    /\ now = 1
    /\ cfg = Config(TestOptions)
    /\ LET f == InitialFields(NoInitialState)
       IN  /\ state = f.state
           /\ failureCount = f.failureCount
           /\ successCount = f.successCount
           /\ firstFailureTime = f.firstFailureTime
           /\ lastFailureTime = f.lastFailureTime
           /\ nextAttempt = f.nextAttempt
    /\ calls = EmptyBag
    /\ log = <<>>
    /\ pre = InitialFields(NoInitialState)
    /\ cur = NoCall
    /\ lastOpenTime = 0
    /\ snapshot = NoSnapshot

Advance ==
    /\ now < MaxAdvances * AdvanceStep
    /\ now' = now + AdvanceStep
    /\ log' = <<>>
    /\ pre' = Fields(Self)
    /\ cur' = NoCall
    /\ UNCHANGED <<cfg, state, failureCount, successCount, firstFailureTime,
                   lastFailureTime, nextAttempt, calls, lastOpenTime, snapshot>>

TestNext ==
    \/ InFlight = 0 /\ Execute
    \/ \E c \in BagToSet(calls) : Resolve(c)
    \/ \E c \in BagToSet(calls) : Reject(c)
    \/ Advance

TestSpec == TestInit /\ [][TestNext]_vars

\* A caller reads the breaker between execute calls: the step takes the
\* fields the method leaves and records the value it returned
Probe(s) ==
    /\ state' = s.state
    /\ failureCount' = s.failureCount
    /\ successCount' = s.successCount
    /\ firstFailureTime' = s.firstFailureTime
    /\ lastFailureTime' = s.lastFailureTime
    /\ nextAttempt' = s.nextAttempt
    /\ log' = s.log
    /\ pre' = Fields(Self)
    /\ cur' = NoCall

GetState ==
    /\ Probe(getState(Self))
    /\ UNCHANGED <<now, cfg, calls, lastOpenTime, snapshot>>

ExportState ==
    /\ LET s == exportState(Self)
       IN  /\ Probe(s)
           /\ snapshot' = IF snapshot = NoSnapshot
                            THEN [at |-> now, value |-> Last(s.log).payload]
                            ELSE snapshot
    /\ UNCHANGED <<now, cfg, calls, lastOpenTime>>

\* b2 = new CircuitBreaker(options, b1.exportState()) with the options of b1:
\* from here on the breaker of the model is b2, no call of its own in flight
Restore ==
    /\ LET s == exportState(Self)
           exported == Last(s.log).payload
           b2 == InitialFields(exported)
       IN  /\ state' = b2.state
           /\ failureCount' = b2.failureCount
           /\ successCount' = b2.successCount
           /\ firstFailureTime' = b2.firstFailureTime
           /\ lastFailureTime' = b2.lastFailureTime
           /\ nextAttempt' = b2.nextAttempt
           /\ log' = Effect(s, "construct", "CircuitBreaker", exported).log
           /\ snapshot' = IF snapshot = NoSnapshot
                            THEN [at |-> now, value |-> exported]
                            ELSE snapshot
    /\ pre' = Fields(Self)
    /\ cur' = NoCall
    /\ calls' = EmptyBag
    /\ UNCHANGED <<now, cfg, lastOpenTime>>

ProbeNext ==
    \/ SeqNext
    \/ GetState
    \/ ExportState
    \/ Restore

ProbeSpec == Init /\ [][ProbeNext]_vars

TypeOK ==
    /\ now \in 1..MaxTime
    /\ state \in {CLOSED, OPEN, HALF_OPEN}
    /\ failureCount \in Nat
    /\ successCount \in Nat
    /\ InFlight <= MaxInFlight

----------------------------------------------------------------------------
(* Properties *)

\* the step was a call of the probe `name`; Returned is the value it returned
Probed(name) == log # <<>> /\ Last(log).ev = "probe" /\ Last(log).name = name
Returned == Last(log).payload

EmitAt(l, i, name) == l[i].ev = "emit" /\ l[i].name = name
CountEmits(l, name) == Cardinality({i \in 1..Len(l) : EmitAt(l, i, name)})
Count(l, ev) == Cardinality({i \in 1..Len(l) : l[i].ev = ev})
EmitsBetween(l, name, i, k) ==
    \E j \in (i + 1)..(k - 1) : l[j].ev = "emit" /\ l[j].name = name
AllZero ==
    /\ failureCount = 0 /\ successCount = 0
    /\ firstFailureTime = 0 /\ lastFailureTime = 0 /\ nextAttempt = 0

\* C1: whenever execute invokes the operation it is not the case that the phase
\* is OPEN with now < nextAttempt; an execute call that finds, after its
\* reconciliation, the phase OPEN with now < nextAttempt throws
\* CircuitBreakerOpenError and does not invoke the operation.
C1_NeverInvokedWhileOpen ==
    /\ Invoked(log) => ~(state = OPEN /\ now < nextAttempt)
    /\ (Has(log, "call") /\ state = OPEN /\ now < nextAttempt)
          => /\ Throws(log, "CircuitBreakerOpenError")
             /\ ~Invoked(log)

C1_Witness ==
    /\ Has(log, "call") /\ state = OPEN /\ now < nextAttempt
    /\ Throws(log, "CircuitBreakerOpenError")

\* C2: once the phase has entered OPEN at time t, every execute call made at a
\* time earlier than t + resetTimeout throws CircuitBreakerOpenError and does
\* not invoke the operation.
C2_RejectsUntilResetTimeout ==
    (Has(log, "call") /\ lastOpenTime # 0 /\ now < lastOpenTime + cfg.resetTimeout)
       => /\ Throws(log, "CircuitBreakerOpenError")
          /\ ~Invoked(log)

\* C3: execute throws CircuitBreakerOpenError only in a step that did not invoke
\* the operation; an invoked operation's outcome is execute's outcome: its
\* result is returned after a success was recorded, its error is thrown, the
\* same one, after a failure was recorded.
C3_OutcomeIsTheOperations ==
    /\ Throws(log, "CircuitBreakerOpenError")
          => ~Invoked(log) /\ ~Has(log, "resolved") /\ ~Has(log, "rejected")
    /\ Invoked(log) => ~Has(log, "throw") /\ ~Has(log, "return")
    /\ \A i \in 1..Len(log) :
          log[i].ev = "resolved"
             => /\ Last(log).ev = "return" /\ Last(log).payload = log[i].payload
                /\ ~Has(log, "throw") /\ Count(log, "return") = 1
                /\ EmitsBetween(log, "success", i, Len(log))
                /\ pre.state # HALF_OPEN => successCount = pre.successCount + 1
    /\ \A i \in 1..Len(log) :
          log[i].ev = "rejected"
             => /\ Last(log).ev = "throw" /\ Last(log).name = log[i].name
                /\ ~Has(log, "return") /\ Count(log, "throw") = 1
                /\ EmitsBetween(log, "failure", i, Len(log))
                /\ failureCount = pre.failureCount + 1
                /\ lastFailureTime = now

C3_Witness ==
    /\ Has(log, "rejected") /\ Last(log).ev = "throw" /\ Last(log).name = "E2"
    /\ failureCount = pre.failureCount + 1

\* C4: the phase changes only along CLOSED->OPEN, OPEN->HALF_OPEN,
\* HALF_OPEN->CLOSED and HALF_OPEN->OPEN.
C4_OnlyDocumentedEdges ==
    /\ state \in {CLOSED, OPEN, HALF_OPEN}
    /\ state # pre.state
          => <<pre.state, state>> \in {<<CLOSED, OPEN>>, <<OPEN, HALF_OPEN>>,
                                       <<HALF_OPEN, CLOSED>>, <<HALF_OPEN, OPEN>>}

\* C5: the phase goes from CLOSED to OPEN exactly in a step that records a
\* failure while CLOSED and in which, failureCount incremented and the window
\* started if none was open, the five conditions hold; if one fails the phase
\* stays CLOSED; recording a success never opens the circuit.
C5_OpensExactlyOnThreshold ==
    LET total == failureCount + successCount
        five == /\ failureCount >= cfg.minFailures
                /\ failureCount * 100 >= cfg.failureThreshold * total
                /\ total >= cfg.minAttempts
                /\ now - firstFailureTime >= cfg.minEvaluationTime
                /\ now < firstFailureTime + cfg.timeWindow
    IN  /\ (pre.state = CLOSED /\ state = OPEN) => Has(log, "rejected")
        /\ (Has(log, "rejected") /\ pre.state = CLOSED)
              => /\ failureCount = pre.failureCount + 1
                 /\ successCount = pre.successCount
                 /\ firstFailureTime =
                       IF pre.firstFailureTime = 0 THEN now ELSE pre.firstFailureTime
                 /\ state = IF five THEN OPEN ELSE CLOSED
        /\ (Has(log, "resolved") /\ pre.state # OPEN) => state # OPEN

C5_Witness ==
    /\ Has(log, "rejected") /\ pre.state = CLOSED /\ state = OPEN
    /\ successCount > 0

\* C6: an execute call made while the phase is OPEN at a time now >= nextAttempt
\* (now = nextAttempt included) moves the phase to HALF_OPEN and invokes the
\* operation exactly once instead of rejecting.
C6_HalfOpensAtNextAttempt ==
    (Has(log, "call") /\ pre.state = OPEN /\ now >= pre.nextAttempt)
       => /\ state = HALF_OPEN
          /\ Count(log, "invoke") = 1
          /\ ~Has(log, "throw")

C6_Witness ==
    /\ Has(log, "call") /\ pre.state = OPEN /\ now = pre.nextAttempt
    /\ state = HALF_OPEN /\ Invoked(log)

\* C7: recording a success while the phase is HALF_OPEN moves the phase to
\* CLOSED with failureCount, successCount, firstFailureTime, lastFailureTime and
\* nextAttempt all 0.
C7_HalfOpenSuccessCloses ==
    (Has(log, "resolved") /\ pre.state = HALF_OPEN) => (state = CLOSED /\ AllZero)

C7_Witness ==
    /\ Has(log, "resolved") /\ pre.state = HALF_OPEN
    /\ pre.nextAttempt # 0 /\ pre.firstFailureTime # 0 /\ state = CLOSED

\* C8: recording a failure while the phase is HALF_OPEN moves the phase to OPEN,
\* whatever the threshold condition says.
C8_HalfOpenFailureOpens ==
    (Has(log, "rejected") /\ pre.state = HALF_OPEN) => state = OPEN

C8_Witness ==
    /\ Has(log, "rejected") /\ pre.state = HALF_OPEN /\ state = OPEN
    /\ failureCount < cfg.minFailures
    /\ failureCount + successCount < cfg.minAttempts
    /\ now >= firstFailureTime + cfg.timeWindow

\* C9: every transition into OPEN, from CLOSED or from HALF_OPEN, is made by
\* recording a failure and sets nextAttempt to the time that failure is
\* recorded plus resetTimeout.
C9_NextAttemptIsOpenTimePlusReset ==
    (state = OPEN /\ pre.state # OPEN)
       => /\ Has(log, "rejected")
          /\ lastFailureTime = now
          /\ nextAttempt = lastFailureTime + cfg.resetTimeout

C9_Witness ==
    /\ state = OPEN /\ pre.state = CLOSED /\ firstFailureTime < now
    /\ nextAttempt = now + cfg.resetTimeout

\* C10: an execute call made while CLOSED with a window open and
\* now - firstFailureTime > timeWindow resets every counter and window marker
\* to 0 before invoking the operation, the phase staying CLOSED; when that
\* operation then fails, failureCount = 1 and firstFailureTime is the time of
\* that failure (callers sequential).
C10_LapsedWindowIsReset ==
    /\ (/\ Has(log, "call") /\ pre.state = CLOSED /\ pre.firstFailureTime # 0
        /\ now - pre.firstFailureTime > cfg.timeWindow)
          => /\ state = CLOSED /\ AllZero
             /\ Last(log).ev = "invoke" /\ Count(log, "invoke") = 1
    /\ (Has(log, "rejected") /\ cur.lapsed)
          => /\ failureCount = 1
             /\ firstFailureTime = now

C10_Witness ==
    /\ Has(log, "rejected") /\ cur.lapsed /\ failureCount = 1
    /\ firstFailureTime = now /\ state = CLOSED


\* C11 (as claimed): an execute call that finds failureCount >= maxFailureCount
\* fully resets the breaker (phase CLOSED, counters and timestamps 0) before
\* invoking the operation, whatever the phase.
C11_CeilingResetsInEveryPhase ==
    (Has(log, "call") /\ pre.failureCount >= cfg.maxFailureCount)
       => /\ state = CLOSED /\ AllZero
          /\ Last(log).ev = "invoke"

\* C11 (amended): an execute call that finds failureCount >= maxFailureCount
\* fully resets the breaker before invoking the operation, also mid-window and
\* while OPEN before nextAttempt; when the phase is OPEN and now >= nextAttempt
\* the call half-opens instead: the counters are 0, the phase is HALF_OPEN and
\* the timestamps are kept.
C11_CeilingResetsUnlessHalfOpening ==
    (Has(log, "call") /\ pre.failureCount >= cfg.maxFailureCount)
       => /\ Last(log).ev = "invoke"
          /\ failureCount = 0 /\ successCount = 0
          /\ IF pre.state = OPEN /\ now >= pre.nextAttempt
               THEN /\ state = HALF_OPEN
                    /\ firstFailureTime = pre.firstFailureTime
                    /\ lastFailureTime = pre.lastFailureTime
                    /\ nextAttempt = pre.nextAttempt
               ELSE state = CLOSED /\ AllZero

C11_Witness ==
    /\ Has(log, "call") /\ pre.failureCount >= cfg.maxFailureCount
    /\ pre.state = CLOSED /\ now - pre.firstFailureTime <= cfg.timeWindow
    /\ state = CLOSED /\ AllZero

\* C12: maxFailureCount is a hard ceiling: failureCount <= maxFailureCount in
\* every reachable state, interleaved execute calls included.
C12_FailureCountWithinCeiling == failureCount <= cfg.maxFailureCount


\* C13 (as claimed): with minFailures 3, minAttempts 5, failureThreshold 0.5,
\* timeWindow 10000 on a fresh breaker, in every ordering of 3 failing and 2
\* succeeding sequential calls inside the window the phase becomes OPEN on the
\* 3rd failure.
C13_ThirdFailureOpensInEveryOrder ==
    (/\ Has(log, "rejected") /\ pre.state = CLOSED
     /\ failureCount = 3 /\ successCount <= 2
     /\ now < firstFailureTime + cfg.timeWindow)
       => state = OPEN

\* C13 (amended): the 3rd failure opens the circuit in the orderings where it
\* is the fifth call (both successes before it); in the other orderings the 3rd
\* failure leaves the phase CLOSED, and so do the successes after it.
C13_ThirdFailureOpensWhenFifthCall ==
    /\ (/\ Has(log, "rejected") /\ pre.state = CLOSED
        /\ failureCount = 3 /\ successCount <= 2
        /\ now < firstFailureTime + cfg.timeWindow)
          => (state = OPEN <=> successCount = 2)
    /\ (/\ Has(log, "resolved") /\ pre.state = CLOSED
        /\ failureCount = 3 /\ successCount <= 2)
          => state = CLOSED

C13_Witness ==
    /\ Has(log, "rejected") /\ pre.state = CLOSED
    /\ failureCount = 3 /\ successCount = 2 /\ state = OPEN

\* C14: with the same options, in every ordering of 2 failing and 3 succeeding
\* sequential calls the phase is CLOSED after each of the five calls.
C14_TwoFailuresStayClosed ==
    (/\ Has(log, "resolved") \/ Has(log, "rejected")
     /\ pre.state = CLOSED
     /\ failureCount <= 2 /\ successCount <= 3)
       => state = CLOSED

C14_Witness ==
    /\ Has(log, "rejected") /\ failureCount = 2 /\ successCount = 3
    /\ now < firstFailureTime + cfg.timeWindow
    /\ state = CLOSED


\* C15 (as claimed): the steps of an execute call that succeeds, made while
\* the phase is CLOSED, keep the phase CLOSED and leave failureCount and
\* firstFailureTime as they were.
C15_SuccessesKeepFailuresAndWindow ==
    (pre.state = CLOSED /\ (Has(log, "call") \/ Has(log, "resolved")))
       => /\ state = CLOSED
          /\ failureCount = pre.failureCount
          /\ firstFailureTime = pre.firstFailureTime

\* C15 (amended): recording a success while CLOSED keeps the phase CLOSED and
\* changes successCount alone, by one.  The call's entry keeps the phase CLOSED
\* and every field as it was unless it finds the window lapsed or failureCount
\* at maxFailureCount; then it zeroes failureCount, successCount,
\* firstFailureTime, lastFailureTime and nextAttempt.
C15_SuccessesKeepUnlessEntryResets ==
    /\ (pre.state = CLOSED /\ Has(log, "resolved"))
          => /\ state = CLOSED
             /\ successCount = pre.successCount + 1
             /\ failureCount = pre.failureCount
             /\ firstFailureTime = pre.firstFailureTime
             /\ lastFailureTime = pre.lastFailureTime
             /\ nextAttempt = pre.nextAttempt
    /\ (pre.state = CLOSED /\ Has(log, "call"))
          => /\ state = CLOSED /\ Invoked(log)
             /\ IF \/ /\ pre.firstFailureTime # 0
                      /\ now - pre.firstFailureTime > cfg.timeWindow
                   \/ pre.failureCount >= cfg.maxFailureCount
                  THEN AllZero
                  ELSE Fields(Self) = pre

C15_Witness ==
    /\ pre.state = CLOSED /\ Has(log, "resolved")
    /\ pre.failureCount > 0 /\ failureCount = pre.failureCount
    /\ firstFailureTime # 0 /\ successCount = pre.successCount + 1


\* C16: the passage of time alone changes no field of the breaker, and getState
\* reconciles nothing: it returns the phase field as it is and leaves every
\* field alone, so once the circuit has opened and the clock has reached or
\* passed nextAttempt getState still returns OPEN; the phase leaves OPEN only
\* in a step that enters an execute call.
C16_GetStateDoesNotReconcile ==
    /\ log = <<>> => Fields(Self) = pre
    /\ Probed("getState")
          => /\ Fields(Self) = pre
             /\ Returned = pre.state
             /\ (pre.state = OPEN /\ now >= pre.nextAttempt) => Returned = OPEN
    /\ (pre.state = OPEN /\ state # OPEN) => Has(log, "call")

C16_Witness ==
    /\ Probed("getState") /\ Returned = OPEN
    /\ state = OPEN /\ now > nextAttempt


\* C17: a breaker constructed with initialState = b1.exportState() holds, field
\* by field, what b1 exported, its immediate exportState() returns that same
\* snapshot, and it behaves like b1: in every reachable state the breaker
\* rebuilt from the export takes each step (the entry of an execute call, a
\* resolution, a rejection, a probe) exactly as the original does.
C17_RoundTrip ==
    /\ Has(log, "construct")
          => /\ Fields(Self) = Last(log).payload
             /\ Fields(Self) = pre
             /\ Last(exportState(Self).log).payload = Last(log).payload
    /\ LET exported == Last(exportState(Self).log).payload
           b2 == [f \in DOMAIN Self |->
                     IF f = "log" THEN <<>> ELSE InitialFields(exported)[f]]
       IN  /\ executeEnter(b2) = executeEnter(Self)
           /\ \A result \in OpResults :
                 executeResolved(b2, result) = executeResolved(Self, result)
           /\ \A error \in OpErrors :
                 executeRejected(b2, error) = executeRejected(Self, error)
           /\ getState(b2) = getState(Self)
           /\ exportState(b2) = exportState(Self)

C17_Witness ==
    /\ Has(log, "construct") /\ state = OPEN /\ now < nextAttempt
    /\ firstFailureTime # 0 /\ failureCount > 0 /\ successCount > 0
    /\ Fields(Self) = Last(log).payload


\* C18: exportState and getState are read-only: a call of either changes no
\* field and emits nothing; exportState returns the six fields, hence the
\* snapshot it returns equals the first one taken since the last execute step,
\* whatever time has passed; getState returns the phase field of exportState.
C18_ProbesAreReadOnly ==
    /\ (Probed("getState") \/ Probed("exportState"))
          => /\ Fields(Self) = pre
             /\ Len(log) = 1
             /\ ~Has(log, "emit")
    /\ Probed("exportState")
          => /\ Returned = Fields(Self)
             /\ Returned = snapshot.value
             /\ Last(getState(Self).log).payload = Returned.state
    /\ Probed("getState") => Returned = Last(exportState(Self).log).payload.state

C18_Witness ==
    /\ Probed("exportState") /\ snapshot.at < now /\ Returned = snapshot.value
    /\ state = OPEN /\ now >= nextAttempt


\* C19: every change of phase is surfaced in the step that makes it: entering
\* OPEN emits openCircuit, entering HALF_OPEN emits halfOpen, entering CLOSED
\* from another phase emits closeCircuit.
C19_EveryPhaseChangeIsNotified ==
    state # pre.state
       => /\ state = OPEN => Emits(log, "openCircuit")
          /\ state = HALF_OPEN => Emits(log, "halfOpen")
          /\ state = CLOSED => Emits(log, "closeCircuit")


\* C20: every openCircuit notification, emitted on a transition into OPEN or on
\* a rejected call while OPEN, carries as payload the breaker's nextAttempt.
C20_OpenCircuitCarriesNextAttempt ==
    \A i \in 1..Len(log) :
       (log[i].ev = "emit" /\ log[i].name = "openCircuit")
          => log[i].payload = nextAttempt


\* C21: every success notification carries the updated successCount and every
\* failure notification the updated failureCount: the count before the outcome
\* was recorded plus one, also when the outcome causes a change of phase.
C21_OutcomePayloadIsUpdatedCount ==
    \A i \in 1..Len(log) :
       /\ (log[i].ev = "emit" /\ log[i].name = "success")
             => log[i].payload = pre.successCount + 1
       /\ (log[i].ev = "emit" /\ log[i].name = "failure")
             => log[i].payload = pre.failureCount + 1


\* C22: notifications are emitted in-line and in a fixed order: halfOpen before
\* the operation is invoked; when an outcome changes the phase, openCircuit
\* (failure) or closeCircuit (success) before that outcome's failure/success
\* notification; and nothing is emitted after the execute call's return or
\* throw, which ends the step.
C22_NotificationOrder ==
    /\ \A i \in 1..Len(log) :
          EmitAt(log, i, "halfOpen")
             => \E j \in (i + 1)..Len(log) : log[j].ev = "invoke"
    /\ \A i \in 1..Len(log) : \A j \in 1..Len(log) :
          /\ (EmitAt(log, i, "halfOpen") /\ log[j].ev = "invoke") => i < j
          /\ (EmitAt(log, i, "openCircuit") /\ EmitAt(log, j, "failure")) => i < j
          /\ (EmitAt(log, i, "closeCircuit") /\ EmitAt(log, j, "success")) => i < j
          /\ (log[i].ev = "emit" /\ log[j].ev \in {"return", "throw"}) => i < j
    /\ (Has(log, "rejected") /\ state # pre.state)
          => /\ Emits(log, "openCircuit") /\ Emits(log, "failure")
    /\ (Has(log, "resolved") /\ state # pre.state)
          => /\ Emits(log, "closeCircuit") /\ Emits(log, "success")
    /\ \A j \in 1..Len(log) : log[j].ev \in {"return", "throw"} => j = Len(log)
    /\ log # <<>> /\ ~Has(log, "probe") /\ ~Has(log, "construct")
          => Last(log).ev \in {"invoke", "return", "throw"}

C22_Witness ==
    /\ Has(log, "rejected") /\ pre.state = CLOSED /\ state = OPEN
    /\ Len(log) = 4
    /\ EmitAt(log, 2, "openCircuit") /\ EmitAt(log, 3, "failure")
    /\ log[4].ev = "throw"


\* C23: an execute call whose operation is invoked and settles emits exactly
\* one outcome notification, success if it resolved and failure if it
\* rejected, whatever the phase (none at its entry, one when it settles); a
\* call rejected because the circuit is OPEN emits exactly one openCircuit and
\* neither success nor failure.
C23_ExactlyOneOutcomeNotification ==
    /\ Has(log, "call")
          => CountEmits(log, "success") = 0 /\ CountEmits(log, "failure") = 0
    /\ Has(log, "resolved")
          => CountEmits(log, "success") = 1 /\ CountEmits(log, "failure") = 0
    /\ Has(log, "rejected")
          => CountEmits(log, "failure") = 1 /\ CountEmits(log, "success") = 0
    /\ Throws(log, "CircuitBreakerOpenError")
          => /\ CountEmits(log, "openCircuit") = 1
             /\ ~Invoked(log) /\ ~Has(log, "resolved") /\ ~Has(log, "rejected")
    /\ cur.kind = "call" /\ ~Has(log, "call")
          => Has(log, "resolved") \/ Has(log, "rejected")

C23_Witness ==
    /\ Has(log, "rejected") /\ pre.state = OPEN /\ state = OPEN
    /\ CountEmits(log, "failure") = 1


\* C24: while the phase is HALF_OPEN a single trial call is allowed: the call
\* that half-opened the circuit is the trial, so an execute call that finds
\* the phase HALF_OPEN does not invoke the operation.
C24_SingleTrialInHalfOpen ==
    (Has(log, "call") /\ pre.state = HALF_OPEN) => ~Invoked(log)


\* C25: no phase is terminal: from OPEN (its cooldown ending within the time
\* the model covers) the phase eventually leaves OPEN, and leaves it for
\* HALF_OPEN; every HALF_OPEN period eventually ends in CLOSED or OPEN.
C25_NoTerminalPhase ==
    /\ [](pre.state = OPEN /\ state # OPEN => state = HALF_OPEN)
    /\ (state = OPEN /\ nextAttempt <= MaxTime) ~> (state # OPEN)
    /\ (state = HALF_OPEN) ~> (state \in {CLOSED, OPEN})


C27_StateChangedOnEveryPhaseChange ==
    state # pre.state => Emits(log, "stateChanged")


\* C28: while CLOSED with a window open, successCount counts only outcomes of
\* the current window: every success counted in it was recorded at or after
\* firstFailureTime.  Hence no step opens a window at a clock reading the
\* breaker has just reached (the last step advanced the clock, so every success
\* counted so far was recorded earlier) and keeps those successes counted.
C28_CountedSuccessesAreInWindow ==
    [][(/\ log = <<>> /\ now > 1
        /\ state = CLOSED /\ firstFailureTime = 0 /\ successCount > 0)
          => ~(/\ state' = CLOSED /\ firstFailureTime' = now'
               /\ successCount' = successCount)]_vars


\* C29: in every reachable state of a breaker created without initialState,
\* interleaved execute calls included: if the phase is CLOSED and
\* firstFailureTime = 0 then failureCount = 0.
C29_NoFailuresWithoutWindow ==
    (state = CLOSED /\ firstFailureTime = 0) => failureCount = 0

C29_Witness ==
    /\ state = CLOSED /\ firstFailureTime = 0 /\ failureCount = 0
    /\ pre.failureCount > 0 /\ InFlight > 0


\* C30: in every reachable state of a breaker created without initialState and
\* with resetTimeout > 0: if the phase is OPEN then nextAttempt is strictly
\* greater than the time at which the current OPEN period was entered.
C30_NextAttemptAfterOpenTime ==
    (state = OPEN /\ cfg.resetTimeout > 0)
       => /\ lastOpenTime # 0
          /\ nextAttempt > lastOpenTime

C30_Witness ==
    /\ state = OPEN /\ pre.state = HALF_OPEN /\ cfg.resetTimeout > 0
    /\ lastOpenTime = now /\ nextAttempt > lastOpenTime


\* C31: immediately after every transition into CLOSED or into HALF_OPEN,
\* failureCount = 0 and successCount = 0.
C31_CountsZeroOnEnteringClosedOrHalfOpen ==
    (state # pre.state /\ state \in {CLOSED, HALF_OPEN})
       => failureCount = 0 /\ successCount = 0

C31_Witness ==
    /\ Has(log, "resolved") /\ pre.state = HALF_OPEN /\ state = CLOSED
    /\ failureCount = 0 /\ successCount = 0


\* C32: a failure recorded while CLOSED at a time now >= firstFailureTime +
\* timeWindow (equality included, and an operation invoked inside the window
\* that fails after it included) is handled by the window-reset branch of the
\* same execute call: the old counters are discarded and the failure is the
\* first of a new window (failureCount = 1, firstFailureTime = now).
C32_LateFailureStartsNewWindow ==
    (/\ Has(log, "rejected") /\ pre.state = CLOSED
     /\ \/ cur.lapsed
        \/ /\ pre.firstFailureTime # 0
           /\ now >= pre.firstFailureTime + cfg.timeWindow)
       => /\ failureCount = 1
          /\ firstFailureTime = now


\* C33: the phase that follows HALF_OPEN is decided by the outcome of the trial
\* call alone, an operation invoked during that HALF_OPEN period: the outcome
\* of an operation invoked before the period began (while CLOSED) never closes
\* or re-opens the circuit.
C33_OnlyTheTrialDecides ==
    (/\ Has(log, "resolved") \/ Has(log, "rejected")
     /\ pre.state = HALF_OPEN
     /\ cur.phase # HALF_OPEN)
       => state = HALF_OPEN


\* C34: the window is anchored at its first failure and does not slide: while
\* the phase stays CLOSED, firstFailureTime changes only from 0 to now, when a
\* failure is recorded with no window open, and back to 0, on a reset at the
\* entry of an execute call; a later failure of the same window leaves
\* firstFailureTime as it was and updates lastFailureTime (and failureCount).
C34_WindowIsAnchored ==
    /\ (/\ pre.state = CLOSED /\ state = CLOSED
        /\ firstFailureTime # pre.firstFailureTime)
          => \/ /\ pre.firstFailureTime = 0 /\ Has(log, "rejected")
                /\ firstFailureTime = now
             \/ /\ Has(log, "call") /\ AllZero
    /\ (/\ Has(log, "rejected") /\ pre.state = CLOSED /\ state = CLOSED
        /\ pre.firstFailureTime # 0)
          => /\ firstFailureTime = pre.firstFailureTime
             /\ lastFailureTime = now
             /\ failureCount = pre.failureCount + 1
             /\ successCount = pre.successCount
             /\ nextAttempt = pre.nextAttempt

C34_Witness ==
    /\ Has(log, "rejected") /\ pre.state = CLOSED /\ state = CLOSED
    /\ pre.firstFailureTime # 0 /\ firstFailureTime = pre.firstFailureTime
    /\ firstFailureTime < now /\ lastFailureTime = now


\* C35: an execute call rejected with CircuitBreakerOpenError leaves every
\* field of the breaker unchanged (phase, failureCount, successCount,
\* firstFailureTime, lastFailureTime, nextAttempt): a rejection is not counted
\* as a failure and does not extend the cooldown.
C35_RejectionChangesNothing ==
    Throws(log, "CircuitBreakerOpenError")
       => /\ Has(log, "call")
          /\ Fields(Self) = pre

C35_Witness ==
    /\ Throws(log, "CircuitBreakerOpenError") /\ Fields(Self) = pre
    /\ state = OPEN /\ failureCount > 0 /\ nextAttempt = now + 1


\* C36: when an operation admitted earlier settles while the phase is OPEN,
\* recording its outcome changes neither the phase nor nextAttempt: a late
\* success does not close the circuit, a late failure does not restart the
\* cooldown; only the outcome's counter (and lastFailureTime on a failure)
\* changes.
C36_LateOutcomeWhileOpen ==
    /\ (Has(log, "resolved") /\ pre.state = OPEN)
          => /\ state = OPEN
             /\ nextAttempt = pre.nextAttempt
             /\ successCount = pre.successCount + 1
             /\ failureCount = pre.failureCount
             /\ firstFailureTime = pre.firstFailureTime
             /\ lastFailureTime = pre.lastFailureTime
    /\ (Has(log, "rejected") /\ pre.state = OPEN)
          => /\ state = OPEN
             /\ nextAttempt = pre.nextAttempt
             /\ failureCount = pre.failureCount + 1
             /\ lastFailureTime = now
             /\ successCount = pre.successCount
             /\ firstFailureTime = pre.firstFailureTime

C36_Witness ==
    /\ Has(log, "resolved") /\ pre.state = OPEN /\ state = OPEN
    /\ successCount = pre.successCount + 1
    /\ now >= nextAttempt

====
